---- MODULE Spec2Model ----
(***************************************************************************)
(* Model of src/utils.ts: parseCSV, the CSV ingestion pass of the catalog  *)
(* viewer, with its inner tokenizer parseLine and its number cleaning.     *)
(*                                                                         *)
(* A JavaScript string is a sequence of one-character strings.  A JS       *)
(* number is a record [nan, v]: nan marks NaN, v is the value in units of  *)
(* 1/Scale.  The index i of the line loop is the 0-based JS index, so the  *)
(* JS expression lines[i] is lines[i + 1] here.                            *)
(***************************************************************************)
EXTENDS Integers, Sequences, FiniteSets, TLC

VARIABLES csv, lines, i, groups, pc, result, tokLine, tokFields, tokAgain, tokPc

vars == <<csv, lines, i, groups, pc, result, tokLine, tokFields, tokAgain, tokPc>>

parseVars == <<csv, lines, i, groups, pc, result>>

tokVars == <<tokLine, tokFields, tokAgain, tokPc>>

(***************************************************************************)
(* Bounds of the model.                                                    *)
(***************************************************************************)
MaxRows == 2

MaxTokLen == 6

(***************************************************************************)
(* String primitives of the JS runtime used by utils.ts.                   *)
(***************************************************************************)
\* The white space and line terminators String.prototype.trim strips and
\* the class \s matches, as far as they occur in the modelled inputs.
WhiteSpace == {" ", "\t", "\n", "\r"}

RECURSIVE TrimStart(_)
TrimStart(s) ==
    IF s = <<>> THEN <<>>
    ELSE IF Head(s) \in WhiteSpace THEN TrimStart(Tail(s))
    ELSE s

RECURSIVE TrimEnd(_)
TrimEnd(s) ==
    IF s = <<>> THEN <<>>
    ELSE IF s[Len(s)] \in WhiteSpace THEN TrimEnd(SubSeq(s, 1, Len(s) - 1))
    ELSE s

TrimEndOnly(s) == TrimEnd(s)

\* String.prototype.trim
Trim(s) == TrimEnd(TrimStart(s))

UpperCase == <<"A", "B", "C", "D", "E", "F", "G", "H", "I", "J", "K", "L", "M",
               "N", "O", "P", "Q", "R", "S", "T", "U", "V", "W", "X", "Y", "Z">>

LowerCase == <<"a", "b", "c", "d", "e", "f", "g", "h", "i", "j", "k", "l", "m",
               "n", "o", "p", "q", "r", "s", "t", "u", "v", "w", "x", "y", "z">>

\* the lower-case form of each upper-case letter
LowerOf ==
    [c \in {UpperCase[k] : k \in 1..26} |->
        LowerCase[CHOOSE k \in 1..26 : UpperCase[k] = c]]

LowerChar(c) == IF c \in DOMAIN LowerOf THEN LowerOf[c] ELSE c

\* String.prototype.toLowerCase
ToLowerCase(s) == [k \in 1..Len(s) |-> LowerChar(s[k])]

\* String.prototype.startsWith
StartsWith(s, prefix) ==
    /\ Len(s) >= Len(prefix)
    /\ SubSeq(s, 1, Len(prefix)) = prefix

\* split(/\r?\n/) from position start: the next separator is the first "\n"
\* at or after start, together with a "\r" right before it
RECURSIVE SplitFrom(_, _)
SplitFrom(s, start) ==
    LET nls == {k \in start..Len(s) : s[k] = "\n"}
    IN  IF nls = {} THEN <<SubSeq(s, start, Len(s))>>
        ELSE LET n == CHOOSE k \in nls : \A m \in nls : k <= m
                 stop == IF n > start /\ s[n - 1] = "\r" THEN n - 2 ELSE n - 1
             IN  <<SubSeq(s, start, stop)>> \o SplitFrom(s, n + 1)

\* csv.trim().split(/\r?\n/)
SplitLines(s) == SplitFrom(Trim(s), 1)

(***************************************************************************)
(* The tokenizer parseLine.                                                *)
(***************************************************************************)
\* The locals of parseLine: result, cur, inQuotes and the 1-based position i
\* of the next character the for loop reads.
ParseStart == [result |-> <<>>, cur |-> <<>>, inQuotes |-> FALSE, i |-> 1]

IsEscapedQuoteNever(line, st) == FALSE

\* inQuotes && line[i + 1] === '"': the pair is one literal quote
IsEscapedQuote(line, st) ==
    st.inQuotes /\ st.i + 1 <= Len(line) /\ line[st.i + 1] = "\""

IsSeparatorInQuotesToo(ch, st) == ch = ","

\* char === ',' && !inQuotes
IsSeparator(ch, st) == ch = "," /\ ~st.inQuotes

\* one pass of the for loop's body, on the character at position st.i
ParseChar(line, st) ==
    LET char == line[st.i]
    IN  IF char = "\""
        THEN IF IsEscapedQuote(line, st)
             THEN [st EXCEPT !.cur = Append(@, "\""), !.i = @ + 2]
             ELSE [st EXCEPT !.inQuotes = ~@, !.i = @ + 1]
        ELSE IF IsSeparator(char, st)
        THEN [st EXCEPT !.result = Append(@, Trim(st.cur)), !.cur = <<>>,
                        !.i = @ + 1]
        ELSE [st EXCEPT !.cur = Append(@, char), !.i = @ + 1]

\* the for loop over the positions lo..hi: a position the loop has already
\* consumed (the second quote of an escaped pair) is passed over
RECURSIVE ParseRange(_, _, _, _)
ParseRange(line, st, lo, hi) ==
    IF lo > hi THEN st
    ELSE IF lo = hi THEN (IF st.i = lo THEN ParseChar(line, st) ELSE st)
    ELSE LET mid == (lo + hi) \div 2
             left == ParseRange(line, st, lo, mid)
         IN  IF left.i > hi THEN left ELSE ParseRange(line, left, mid + 1, hi)

\* result.push(cur.trim()); return result
parseLine(line) ==
    LET st == ParseRange(line, ParseStart, 1, Len(line))
    IN  Append(st.result, Trim(st.cur))

(***************************************************************************)
(* JS numbers: parseFloat and the `|| 0` fallback.                         *)
(***************************************************************************)
\* Number values are kept in units of 1/Scale; the modelled cells carry at
\* most two fraction digits, further digits are dropped.
Scale == 100

Num(v) == [nan |-> FALSE, v |-> v]

NaN == [nan |-> TRUE, v |-> 0]

DigitChars == <<"0", "1", "2", "3", "4", "5", "6", "7", "8", "9">>

IsDigit(c) == \E k \in 1..10 : DigitChars[k] = c

DigitVal(c) == (CHOOSE k \in 1..10 : DigitChars[k] = c) - 1

\* the number of leading decimal digits of s
RECURSIVE DigitRun(_)
DigitRun(s) ==
    IF s # <<>> /\ IsDigit(Head(s)) THEN 1 + DigitRun(Tail(s)) ELSE 0

\* the value of a string of decimal digits
RECURSIVE DigitsVal(_)
DigitsVal(s) ==
    IF s = <<>> THEN 0
    ELSE 10 * DigitsVal(SubSeq(s, 1, Len(s) - 1)) + DigitVal(s[Len(s)])

\* the value, in units of 1/Scale, of the fraction digits s
FractionVal(s) ==
    (IF Len(s) >= 1 THEN DigitVal(s[1]) * (Scale \div 10) ELSE 0)
    + (IF Len(s) >= 2 THEN DigitVal(s[2]) * (Scale \div 100) ELSE 0)

\* parseFloat applied to the unsigned text s: the longest prefix that is a
\* decimal literal (digits, digits. , digits.digits, .digits), else NaN.
\* Exponents and "Infinity" do not occur in the modelled cells.
ParseUnsigned(s) ==
    LET n1 == DigitRun(s)
        rest == SubSeq(s, n1 + 1, Len(s))
        hasDot == rest # <<>> /\ Head(rest) = "."
        n2 == IF hasDot THEN DigitRun(Tail(rest)) ELSE 0
    IN  IF n1 + n2 = 0 THEN NaN
        ELSE Num(DigitsVal(SubSeq(s, 1, n1)) * Scale
                 + FractionVal(SubSeq(s, n1 + 2, n1 + 1 + n2)))

\* the global parseFloat: leading white space is skipped, one sign is read
parseFloat(s) ==
    LET t == TrimStart(s)
    IN  IF t # <<>> /\ Head(t) = "-"
        THEN LET r == ParseUnsigned(Tail(t))
             IN  IF r.nan THEN NaN ELSE Num(0 - r.v)
        ELSE IF t # <<>> /\ Head(t) = "+" THEN ParseUnsigned(Tail(t))
        ELSE ParseUnsigned(t)

OrZeroKeepNaN(x) == x

\* x || 0 on a number: NaN and 0 (and -0) are falsy
OrZero(x) == IF x.nan \/ x.v = 0 THEN Num(0) ELSE x

\* val.replace(/[$,\s]/g, '')
StripPrice(val) == SelectSeq(val, LAMBDA c : c \notin ({"$", ","} \cup WhiteSpace))

cleanPrice(val) ==
    IF val = <<>> THEN Num(0) ELSE OrZero(parseFloat(StripPrice(val)))

\* String(undefined), what parseFloat reads when parts[13] is absent
Undefined == <<"u", "n", "d", "e", "f", "i", "n", "e", "d">>

PartAtLast(parts, k) == parts[Len(parts)]

\* parts[k] for the 0-based JS index k
PartAt(parts, k) == IF k + 1 <= Len(parts) THEN parts[k + 1] ELSE Undefined

\* parseFloat(parts[13]) || 0
parseWeight(parts) == OrZero(parseFloat(PartAt(parts, 13)))

(***************************************************************************)
(* String.prototype.localeCompare with no locale argument: the default     *)
(* collation (root collation, three levels).  Canonically equivalent       *)
(* strings compare as equal, letters differ by case only at the third      *)
(* level, and lower case sorts before upper case.                          *)
(***************************************************************************)
\* The character é (U+00E9), and the combining acute accent (U+0301), which
\* is written here with the spacing accent.
EAcute == "é"

CombiningAcute == "´"

\* canonical decomposition (NFD) of the modelled characters
RECURSIVE Decompose(_)
Decompose(s) ==
    IF s = <<>> THEN <<>>
    ELSE IF Head(s) = EAcute THEN <<"e", CombiningAcute>> \o Decompose(Tail(s))
    ELSE <<Head(s)>> \o Decompose(Tail(s))

\* the characters that carry a primary weight, in increasing order
CollationOrder ==
    <<"\t", "\n", "\r", " ", "_", "-", ",", ".", "\"", "/",
      "$">> \o DigitChars \o LowerCase

PrimaryWeight(c) ==
    CHOOSE k \in 1..Len(CollationOrder) : CollationOrder[k] = LowerChar(c)

\* level 1: base characters, case and accents ignored
PrimaryKey(s) ==
    LET d == SelectSeq(Decompose(s), LAMBDA c : c # CombiningAcute)
    IN  [k \in 1..Len(d) |-> PrimaryWeight(d[k])]

\* level 2: accents
SecondaryKey(s) ==
    LET d == Decompose(s)
    IN  [k \in 1..Len(d) |-> IF d[k] = CombiningAcute THEN 2 ELSE 1]

\* level 3: case, lower before upper
TertiaryKey(s) ==
    LET d == Decompose(s)
    IN  [k \in 1..Len(d) |-> IF \E n \in 1..26 : UpperCase[n] = d[k] THEN 2 ELSE 1]

\* lexicographic comparison of two sequences of weights: -1, 0 or 1
RECURSIVE CompareKeys(_, _)
CompareKeys(x, y) ==
    IF x = <<>> /\ y = <<>> THEN 0
    ELSE IF x = <<>> THEN -1
    ELSE IF y = <<>> THEN 1
    ELSE IF Head(x) < Head(y) THEN -1
    ELSE IF Head(x) > Head(y) THEN 1
    ELSE CompareKeys(Tail(x), Tail(y))

localeCompare(a, b) ==
    IF CompareKeys(PrimaryKey(a), PrimaryKey(b)) # 0
    THEN CompareKeys(PrimaryKey(a), PrimaryKey(b))
    ELSE IF CompareKeys(SecondaryKey(a), SecondaryKey(b)) # 0
    THEN CompareKeys(SecondaryKey(a), SecondaryKey(b))
    ELSE CompareKeys(TertiaryKey(a), TertiaryKey(b))

(***************************************************************************)
(* The object `groups` and the final Object.values(groups).sort(...).      *)
(* groups is the sequence of its own properties' values in creation order. *)
(***************************************************************************)
\* Properties every plain object inherits from Object.prototype; all of
\* them are truthy and none has a `variants` property.
ProtoKeys == {<<"c", "o", "n", "s", "t", "r", "u", "c", "t", "o", "r">>, <<"t",
                "o", "S", "t", "r", "i", "n", "g">>, <<"v", "a", "l", "u", "e",
                "O", "f">>, <<"_", "_", "p", "r", "o", "t", "o", "_", "_">>}

HasOwn(gs, name) == \E k \in 1..Len(gs) : gs[k].parentName = name

OwnIndex(gs, name) == CHOOSE k \in 1..Len(gs) : gs[k].parentName = name

\* !groups[parentName]: neither an own nor an inherited property
LookupIsFalsy(gs, name) == ~HasOwn(gs, name) /\ name \notin ProtoKeys

\* a property name that is a canonical array index
IsIndexKey(name) ==
    /\ name # <<>>
    /\ \A k \in 1..Len(name) : IsDigit(name[k])
    /\ (Len(name) = 1 \/ name[1] # "0")

\* Object.values: index keys in ascending numeric order, then the other
\* keys in creation order
RECURSIVE InsertByIndex(_, _)
InsertByIndex(g, sorted) ==
    IF sorted = <<>> THEN <<g>>
    ELSE IF DigitsVal(g.parentName) < DigitsVal(Head(sorted).parentName)
         THEN <<g>> \o sorted
    ELSE <<Head(sorted)>> \o InsertByIndex(g, Tail(sorted))

RECURSIVE SortByIndex(_)
SortByIndex(gs) ==
    IF gs = <<>> THEN <<>>
    ELSE InsertByIndex(gs[Len(gs)], SortByIndex(SubSeq(gs, 1, Len(gs) - 1)))

ObjectValues(gs) ==
    SortByIndex(SelectSeq(gs, LAMBDA g : IsIndexKey(g.parentName)))
    \o SelectSeq(gs, LAMBDA g : ~IsIndexKey(g.parentName))

CompareGroupsReversed(a, b) == localeCompare(b.parentName, a.parentName)

\* (a, b) => a.parentName.localeCompare(b.parentName)
CompareGroups(a, b) == localeCompare(a.parentName, b.parentName)

\* Array.prototype.sort is stable: g goes behind every element that does
\* not compare greater than it
RECURSIVE InsertSorted(_, _)
InsertSorted(g, sorted) ==
    IF sorted = <<>> THEN <<g>>
    ELSE IF CompareGroups(g, Head(sorted)) < 0 THEN <<g>> \o sorted
    ELSE <<Head(sorted)>> \o InsertSorted(g, Tail(sorted))

RECURSIVE SortGroups(_)
SortGroups(gs) ==
    IF gs = <<>> THEN <<>>
    ELSE InsertSorted(gs[Len(gs)], SortGroups(SubSeq(gs, 1, Len(gs) - 1)))

(***************************************************************************)
(* The line loop of parseCSV.                                              *)
(***************************************************************************)
SentinelToken == <<"s", "c", "s", "c", "l", "a", "s", "s">>

HeaderToken == <<"p", "r", "o", "d", "u", "c", "t", "l", "i", "n", "e", "d",
                 "e", "s", "c", "r", "i", "p", "t", "i", "o", "n">>

Uncategorized == <<"U", "n", "c", "a", "t", "e", "g", "o", "r", "i", "z", "e",
                   "d">>

General == <<"G", "e", "n", "e", "r", "a", "l">>

\* parts.length < MinParts: the row is short
MinParts == 11

\* line.toLowerCase().startsWith('scsclass')
IsSentinelLine(line) == StartsWith(ToLowerCase(line), SentinelToken)

\* !line || line.toLowerCase().startsWith('productlinedescription')
IsSkippedLine(line) ==
    line = <<>> \/ StartsWith(ToLowerCase(line), HeaderToken)

\* parts[2] || 'Uncategorized'
ParentNameOf(parts) == IF parts[3] = <<>> THEN Uncategorized ELSE parts[3]

\* parts[1] || 'General'
FamilyOf(parts) == IF parts[2] = <<>> THEN General ELSE parts[2]

\* the object literal pushed onto the group's variants
MakeVariant(parts) ==
    [productLine |-> parts[1],
     family      |-> FamilyOf(parts),
     sku         |-> parts[4],
     description |-> parts[5],
     unit        |-> parts[6],
     stdPrice    |-> cleanPrice(parts[7]),
     floorPrice  |-> cleanPrice(parts[9]),
     givePrice   |-> cleanPrice(parts[10]),
     gsaPrice    |-> cleanPrice(parts[11]),
     weight      |-> parseWeight(parts)]

WithGroupOverwritingFamily(gs, parts) ==
    IF LookupIsFalsy(gs, ParentNameOf(parts))
    THEN Append(gs, [parentName |-> ParentNameOf(parts),
                     family     |-> FamilyOf(parts),
                     variants   |-> <<>>])
    ELSE [k \in 1..Len(gs) |->
            IF gs[k].parentName = ParentNameOf(parts)
            THEN [gs[k] EXCEPT !.family = FamilyOf(parts)]
            ELSE gs[k]]

\* if (!groups[parentName]) groups[parentName] = {parentName, family, variants: []}
WithGroup(gs, parts) ==
    IF LookupIsFalsy(gs, ParentNameOf(parts))
    THEN Append(gs, [parentName |-> ParentNameOf(parts),
                     family     |-> FamilyOf(parts),
                     variants   |-> <<>>])
    ELSE gs

HasSkuNever(g, sku) == FALSE

HasSkuAlways(g, sku) == TRUE

\* groups[parentName].variants.some(v => v.sku === sku)
HasSku(g, sku) == \E k \in 1..Len(g.variants) : g.variants[k].sku = sku

PushVariantFirst(gs, name, v) ==
    [k \in 1..Len(gs) |->
        IF gs[k].parentName = name
        THEN [gs[k] EXCEPT !.variants = <<v>> \o @]
        ELSE gs[k]]

\* groups[parentName].variants.push(v)
PushVariant(gs, name, v) ==
    [k \in 1..Len(gs) |->
        IF gs[k].parentName = name
        THEN [gs[k] EXCEPT !.variants = Append(@, v)]
        ELSE gs[k]]

\* const line = lines[i].trim()
CurLine == Trim(lines[i + 1])

\* const parts = parseLine(line)
CurParts == parseLine(CurLine)

InLoop == pc = "loop" /\ i < Len(lines)

\* if (!csv) return []
EmptyInput ==
    /\ pc = "start"
    /\ csv = <<>>
    /\ pc' = "returned"
    /\ result' = <<>>
    /\ UNCHANGED <<csv, lines, i, groups, tokVars>>

\* if (lines.length < 2) return []
TooFewLines ==
    /\ pc = "start"
    /\ csv # <<>>
    /\ Len(SplitLines(csv)) < 2
    /\ lines' = SplitLines(csv)
    /\ pc' = "returned"
    /\ result' = <<>>
    /\ UNCHANGED <<csv, i, groups, tokVars>>

\* const groups = {}; for (let i = 1; ...
BeginLoop ==
    /\ pc = "start"
    /\ csv # <<>>
    /\ Len(SplitLines(csv)) >= 2
    /\ lines' = SplitLines(csv)
    /\ groups' = <<>>
    /\ i' = 1
    /\ pc' = "loop"
    /\ UNCHANGED <<csv, result, tokVars>>

SentinelContinues ==
    /\ InLoop
    /\ IsSentinelLine(CurLine)
    /\ i' = i + 1
    /\ UNCHANGED <<csv, lines, groups, pc, result, tokVars>>

\* if (line.toLowerCase().startsWith('scsclass')) break
SentinelBreak ==
    /\ InLoop
    /\ IsSentinelLine(CurLine)
    /\ pc' = "sort"
    /\ UNCHANGED <<csv, lines, i, groups, result, tokVars>>

\* if (!line || line.toLowerCase().startsWith('productlinedescription')) continue
SkipLine ==
    /\ InLoop
    /\ ~IsSentinelLine(CurLine)
    /\ IsSkippedLine(CurLine)
    /\ i' = i + 1
    /\ UNCHANGED <<csv, lines, groups, pc, result, tokVars>>

ShortRowAborts ==
    /\ InLoop
    /\ ~IsSentinelLine(CurLine)
    /\ ~IsSkippedLine(CurLine)
    /\ Len(CurParts) < MinParts
    /\ pc' = "sort"
    /\ UNCHANGED <<csv, lines, i, groups, result, tokVars>>

\* if (parts.length < 11) continue
ShortRow ==
    /\ InLoop
    /\ ~IsSentinelLine(CurLine)
    /\ ~IsSkippedLine(CurLine)
    /\ Len(CurParts) < MinParts
    /\ i' = i + 1
    /\ UNCHANGED <<csv, lines, groups, pc, result, tokVars>>

\* a row of at least 11 fields reaches the grouping code
IsDataRow ==
    /\ InLoop
    /\ ~IsSentinelLine(CurLine)
    /\ ~IsSkippedLine(CurLine)
    /\ Len(CurParts) >= MinParts

\* groups[parentName] is an inherited property: no group is created, and
\* groups[parentName].variants.some(...) is a call on undefined, a TypeError
\* that nothing catches
ThrowTypeError ==
    /\ IsDataRow
    /\ ~HasOwn(WithGroup(groups, CurParts), ParentNameOf(CurParts))
    /\ pc' = "threw"
    /\ UNCHANGED <<csv, lines, i, groups, result, tokVars>>

\* if (groups[parentName].variants.some(v => v.sku === sku)) continue
DuplicateSku ==
    /\ IsDataRow
    /\ LET gs == WithGroup(groups, CurParts)
           name == ParentNameOf(CurParts)
       IN  /\ HasOwn(gs, name)
           /\ HasSku(gs[OwnIndex(gs, name)], CurParts[4])
           /\ groups' = gs
    /\ i' = i + 1
    /\ UNCHANGED <<csv, lines, pc, result, tokVars>>

\* groups[parentName].variants.push({...})
AppendVariant ==
    /\ IsDataRow
    /\ LET gs == WithGroup(groups, CurParts)
           name == ParentNameOf(CurParts)
       IN  /\ HasOwn(gs, name)
           /\ ~HasSku(gs[OwnIndex(gs, name)], CurParts[4])
           /\ groups' = PushVariant(gs, name, MakeVariant(CurParts))
    /\ i' = i + 1
    /\ UNCHANGED <<csv, lines, pc, result, tokVars>>

\* the loop condition i < lines.length fails
LoopEnd ==
    /\ pc = "loop"
    /\ i >= Len(lines)
    /\ pc' = "sort"
    /\ UNCHANGED <<csv, lines, i, groups, result, tokVars>>

\* return Object.values(groups).sort(...)
ReturnSorted ==
    /\ pc = "sort"
    /\ result' = SortGroups(ObjectValues(groups))
    /\ pc' = "returned"
    /\ UNCHANGED <<csv, lines, i, groups, tokVars>>

(***************************************************************************)
(* The documents parseCSV is applied to: the empty string, and a first     *)
(* line followed by up to MaxRows further lines, joined by "\n" or by      *)
(* "\r\n".  Each line is one of the lines below.                           *)
(***************************************************************************)
RowB1 == <<"p", ",", "f", ",", "b", ",", "1", ",", "d", ",", "u", ",", "\"",
           "$", "1", ",", "2", "3", "4", ".", "5", "0", "\"", ",", ",", "2",
           ",", "3", ",", "4", ",", ",", ",", "2", ".", "5">>

RowB1Again == <<"p", ",", "g", ",", "b", ",", "1", ",", "x", ",", "u", ",",
                "7", ",", ",", "-", "5", ",", "n", "/", "a", ",", "1", "x">>

RowB2 == <<"q", ",", "g", ",", "b", ",", "2", ",", "\"", "a", " ", "\"", "\"",
           "h", "i", "\"", "\"", "\"", ",", "u", ",", "1", ",", ",", "1", ",",
           "1", ",", "1", ",", ",", ",", ".", "5">>

RowNoParent == <<"p", ",", ",", ",", "1", ",", "d", ",", "u", ",", ",", ",",
                 "-", ",", ".", ",", "$", ",", ",", ",">>

RowProto == <<"p", ",", "f", ",", "c", "o", "n", "s", "t", "r", "u", "c", "t",
              "o", "r", ",", "1", ",", "d", ",", "u", ",", "1", ",", ",", "1",
              ",", "1", ",", "1">>

RowNfc == <<"p", ",", "f", ",", "é", ",", "1", ",", "d", ",", "u", ",", "1",
            ",", ",", "1", ",", "1", ",", "1">>

RowNfd == <<"p", ",", "g", ",", "e", "´", ",", "1", ",", "d", ",", "u", ",",
            "1", ",", ",", "1", ",", "1", ",", "1">>

RowShort == <<"p", ",", "f", ",", "b", ",", "3", ",", "d", ",", "u", ",", "1",
              ",", ",", "1", ",", "1">>

RowNoWeight == <<"r", ",", "h", ",", "c", ",", "5", ",", "d", ",", "u", ",",
                 "$", "2", ",", ",", "3", ",", "4", ",", "5", ",", "9", ",",
                 "8">>

SentinelLine == <<" ", " ", "S", "C", "S", "C", "l", "a", "s", "s", ",", "D",
                  "e", "s", "c", "r", "i", "p", "t", "i", "o", "n">>

HeaderLine == <<"P", "r", "o", "d", "u", "c", "t", "L", "i", "n", "e", "D",
                "e", "s", "c", "r", "i", "p", "t", "i", "o", "n", ",", "F",
                "a", "m", "i", "l", "y", ",", "P", "a", "r", "e", "n", "t">>

BlankLine == <<>>

FirstLineChoices == {HeaderLine, SentinelLine, BlankLine, RowB1}

LineChoices ==
    {RowB1, RowB1Again, RowB2, RowNoParent, RowProto, RowNfc, RowNfd,
     RowShort, RowNoWeight, SentinelLine, HeaderLine, BlankLine}

RECURSIVE JoinWith(_, _)
JoinWith(ss, sep) ==
    IF ss = <<>> THEN <<>>
    ELSE IF Len(ss) = 1 THEN ss[1]
    ELSE ss[1] \o sep \o JoinWith(Tail(ss), sep)

Documents ==
    {<<>>} \cup
    {JoinWith(<<first>> \o rows, nl) :
        first \in FirstLineChoices,
        rows \in UNION {[1..n -> LineChoices] : n \in 0..MaxRows},
        nl \in {<<"\n">>, <<"\r", "\n">>}}

TokIdle ==
    /\ tokLine = <<>>
    /\ tokFields = <<>>
    /\ tokAgain = <<>>
    /\ tokPc = "idle"

Init ==
    /\ csv \in Documents
    /\ lines = <<>>
    /\ i = 0
    /\ groups = <<>>
    /\ pc = "start"
    /\ result = <<>>
    /\ TokIdle

Next ==
    \/ EmptyInput
    \/ TooFewLines
    \/ BeginLoop
    \/ SentinelBreak
    \/ SkipLine
    \/ ShortRow
    \/ ThrowTypeError
    \/ DuplicateSku
    \/ AppendVariant
    \/ LoopEnd
    \/ ReturnSorted

Spec == Init /\ [][Next]_vars

(***************************************************************************)
(* The tokenizer on its own: parseLine applied to every line of up to      *)
(* MaxTokLen characters, then to its fields written back as a CSV line.    *)
(***************************************************************************)
TokAlphabet == {"a", ",", "\"", " "}

TokLines == UNION {[1..n -> TokAlphabet] : n \in 0..MaxTokLen}

\* a field written back: wrapped in quotes, its quotes doubled, when it
\* holds a comma or a quote
RECURSIVE DoubleQuotes(_)
DoubleQuotes(f) ==
    IF f = <<>> THEN <<>>
    ELSE IF Head(f) = "\"" THEN <<"\"", "\"">> \o DoubleQuotes(Tail(f))
    ELSE <<Head(f)>> \o DoubleQuotes(Tail(f))

Requote(f) ==
    IF \E k \in 1..Len(f) : f[k] \in {",", "\""}
    THEN <<"\"">> \o DoubleQuotes(f) \o <<"\"">>
    ELSE f

Rejoin(fields) == JoinWith([k \in 1..Len(fields) |-> Requote(fields[k])],
                                                                            <<",">>)

ParseIdle ==
    /\ csv = <<>>
    /\ lines = <<>>
    /\ i = 0
    /\ groups = <<>>
    /\ pc = "idle"
    /\ result = <<>>

InitTok ==
    /\ ParseIdle
    /\ tokLine \in TokLines
    /\ tokFields = <<>>
    /\ tokAgain = <<>>
    /\ tokPc = "input"

Tokenize ==
    /\ tokPc = "input"
    /\ tokFields' = parseLine(tokLine)
    /\ tokPc' = "tokenized"
    /\ UNCHANGED <<parseVars, tokLine, tokAgain>>

Retokenize ==
    /\ tokPc = "tokenized"
    /\ tokAgain' = parseLine(Rejoin(tokFields))
    /\ tokPc' = "rejoined"
    /\ UNCHANGED <<parseVars, tokLine, tokFields>>

NextTok == Tokenize \/ Retokenize

SpecTok == InitTok /\ [][NextTok]_vars

(***************************************************************************)
(* Properties.                                                             *)
(***************************************************************************)
\* the number of quote characters of line before position k
QuotesBefore(line, k) == Cardinality({m \in 1..(k - 1) : line[m] = "\""})

\* the commas of line outside quoted regions
OpenCommas(line) ==
    {k \in 1..Len(line) : line[k] = "," /\ QuotesBefore(line, k) % 2 = 0}

\* the quotes of line that are inside a quoted region and followed by a quote
EscapedPairs(line) ==
    {k \in 1..(Len(line) - 1) :
        line[k] = "\"" /\ line[k + 1] = "\"" /\ QuotesBefore(line, k) % 2 = 1}

\* the number of quote characters in a sequence of fields
RECURSIVE QuoteCount(_)
QuoteCount(fields) ==
    IF fields = <<>> THEN 0
    ELSE Cardinality({m \in 1..Len(Head(fields)) : Head(fields)[m] = "\""})
         + QuoteCount(Tail(fields))

\* C7: tokenizer round trip.  The fields of any line, each re-quoted when it
\* holds a comma or a quote and joined by commas, tokenize to the same
\* fields again; a line has one field more than it has commas outside
\* quoted regions, so a comma inside quotes never splits a field; and the
\* fields hold one literal quote for each escaped pair inside quotes.
TokenizerRoundTrip ==
    /\ tokPc = "rejoined" => tokAgain = tokFields
    /\ tokPc # "input" => Len(tokFields) = 1 + Cardinality(OpenCommas(tokLine))
    /\ tokPc # "input" => QuoteCount(tokFields) = Cardinality(EscapedPairs(tokLine))

\* C7 witness: a tokenized and re-tokenized line with a field that holds a
\* comma and a literal quote
TokenizerRoundTripWitness ==
    /\ tokPc = "rejoined"
    /\ \E k \in 1..Len(tokFields) :
          /\ \E m \in 1..Len(tokFields[k]) : tokFields[k][m] = ","
          /\ \E m \in 1..Len(tokFields[k]) : tokFields[k][m] = "\""

(***************************************************************************)
(* What a document's lines say, read off `lines` without running the loop. *)
(* sc is the scan of all lines; line 1 is the header line.                 *)
(***************************************************************************)
ScanLine(line) ==
    [sentinel |-> IsSentinelLine(line),
     skipped  |-> IsSkippedLine(line),
     parts    |-> parseLine(line)]

RECURSIVE ScanUpTo(_)
ScanUpTo(n) ==
    IF n = 0 THEN <<>>
    ELSE Append(ScanUpTo(n - 1), ScanLine(Trim(lines[n])))

Scan == ScanUpTo(Len(lines))

\* line k is a row of at least MinParts fields
IsRowLine(sc, k) ==
    ~sc[k].sentinel /\ ~sc[k].skipped /\ Len(sc[k].parts) >= MinParts

\* line k is a row of fewer than MinParts fields
IsShortLine(sc, k) ==
    ~sc[k].sentinel /\ ~sc[k].skipped /\ Len(sc[k].parts) < MinParts

\* the rows among the lines after the header up to line last
RowsUpTo(sc, last) == {k \in 2..last : k <= Len(sc) /\ IsRowLine(sc, k)}

\* the sentinel lines after the header line
Sentinels(sc) == {k \in 2..Len(sc) : sc[k].sentinel}

\* the rows the loop reaches: after the header, before the first sentinel
Accepted(sc) ==
    {k \in 2..Len(sc) : IsRowLine(sc, k) /\ \A s \in Sentinels(sc) : k < s}

ParentAt(sc, k) == ParentNameOf(sc[k].parts)

SkuAt(sc, k) == sc[k].parts[4]

VariantAt(sc, k) == MakeVariant(sc[k].parts)

\* the first row of acc with the parent name name
FirstOfParent(sc, acc, name) ==
    CHOOSE m \in acc :
        /\ ParentAt(sc, m) = name
        /\ \A n \in acc : ParentAt(sc, n) = name => m <= n

\* the first row of acc with the parent name and the sku of row k
FirstOfSku(sc, acc, k) ==
    CHOOSE m \in acc :
        /\ ParentAt(sc, m) = ParentAt(sc, k)
        /\ SkuAt(sc, m) = SkuAt(sc, k)
        /\ \A n \in acc :
              (ParentAt(sc, n) = ParentAt(sc, k) /\ SkuAt(sc, n) = SkuAt(sc, k))
                  => m <= n

\* the rows of acc that are the first with their parent name and sku
Retained(sc, acc) == {k \in acc : FirstOfSku(sc, acc, k) = k}

\* the variants of catalog gs in the group named name
VariantsIn(gs, name) ==
    UNION {{gs[g].variants[n] : n \in 1..Len(gs[g].variants)} :
             g \in {h \in 1..Len(gs) : gs[h].parentName = name}}

\* the variants of catalog gs with the parent name and the sku of row k
VariantsOf(gs, sc, k) ==
    {v \in VariantsIn(gs, ParentAt(sc, k)) : v.sku = SkuAt(sc, k)}

\* every group and every variant of catalog gs comes from a row of set rows
ComesFrom(gs, sc, rows) ==
    \A g \in 1..Len(gs) :
        /\ \E k \in rows : ParentAt(sc, k) = gs[g].parentName
        /\ \A n \in 1..Len(gs[g].variants) :
              \E k \in rows :
                  /\ ParentAt(sc, k) = gs[g].parentName
                  /\ VariantAt(sc, k) = gs[g].variants[n]

Returned == pc = "returned" /\ Len(lines) >= 2

\* C1 as claimed: a sentinel line at any position, the first line included,
\* keeps every later line out of the returned catalog.
SentinelAnywhereStops ==
    Returned =>
        LET sc == Scan
        IN  \A s \in 1..Len(sc) :
                sc[s].sentinel => ComesFrom(result, sc, RowsUpTo(sc, s - 1))

\* C1 amended: a sentinel line at any position after the first line keeps
\* every later line out of the returned catalog: each group and each variant
\* returned comes from a row located before it.
SentinelAfterHeaderStops ==
    Returned =>
        LET sc == Scan
        IN  \A s \in 2..Len(sc) :
                sc[s].sentinel => ComesFrom(result, sc, RowsUpTo(sc, s - 1))

\* C1 witness: a catalog returned for a document with a sentinel line after
\* the header and a row of 11 or more fields after it, whose group is absent.
SentinelAfterHeaderStopsWitness ==
    /\ Returned
    /\ LET sc == Scan
       IN  \E s \in Sentinels(sc) : \E k \in (s + 1)..Len(sc) :
              /\ IsRowLine(sc, k)
              /\ \A g \in 1..Len(result) :
                    result[g].parentName # ParentAt(sc, k)

\* C2 as claimed: parseCSV never raises an error.
ParseNeverThrows == pc # "threw"

\* the five numbers of a variant, and the texts parseFloat reads for them
NumbersOf(v) == <<v.stdPrice, v.floorPrice, v.givePrice, v.gsaPrice, v.weight>>

TextsOf(parts) ==
    <<StripPrice(parts[7]), StripPrice(parts[9]), StripPrice(parts[10]),
      StripPrice(parts[11]), PartAt(parts, 13)>>

\* text minus one leading sign
Unsigned(t) == IF t # <<>> /\ Head(t) \in {"-", "+"} THEN Tail(t) ELSE t

\* text is, as a whole, a decimal number
IsNumeric(text) ==
    LET u == Unsigned(Trim(text))
        n1 == DigitRun(u)
        rest == SubSeq(u, n1 + 1, Len(u))
    IN  \/ n1 >= 1 /\ rest = <<>>
        \/ /\ rest # <<>>
           /\ Head(rest) = "."
           /\ DigitRun(Tail(rest)) = Len(rest) - 1
           /\ n1 + Len(rest) - 1 >= 1

\* text starts, after white space and a sign, with a digit or with a point
\* and a digit
HasNumericPrefix(text) ==
    LET u == Unsigned(TrimStart(text))
    IN  \/ u # <<>> /\ IsDigit(Head(u))
        \/ Len(u) >= 2 /\ Head(u) = "." /\ IsDigit(u[2])

\* C3 as claimed: every price and weight returned is a number that is at
\* least 0.
NumbersNeverNegative ==
    Returned =>
        \A g \in 1..Len(result) : \A n \in 1..Len(result[g].variants) :
            \A j \in 1..5 :
                /\ ~NumbersOf(result[g].variants[n])[j].nan
                /\ NumbersOf(result[g].variants[n])[j].v >= 0

\* C3 amended: every price and weight returned is a number, never NaN; it
\* is below 0 only when the text read for it starts with a minus sign.
NumbersNeverNaN ==
    Returned =>
        LET sc == Scan
            acc == Accepted(sc)
        IN  \A k \in Retained(sc, acc) :
                /\ VariantsOf(result, sc, k) # {}
                /\ \A v \in VariantsOf(result, sc, k) : \A j \in 1..5 :
                      /\ ~NumbersOf(v)[j].nan
                      /\ NumbersOf(v)[j].v < 0 =>
                            /\ TextsOf(sc[k].parts)[j] # <<>>
                            /\ Head(TextsOf(sc[k].parts)[j]) = "-"

\* C3 witness: a returned variant with a price below 0 and one that was
\* read from text that is no number.
NumbersNeverNaNWitness ==
    /\ Returned
    /\ LET sc == Scan
           acc == Accepted(sc)
       IN  \E k \in Retained(sc, acc) : \E v \in VariantsOf(result, sc, k) :
              /\ \E j \in 1..5 : NumbersOf(v)[j].v < 0
              /\ \E j \in 1..5 :
                    /\ ~HasNumericPrefix(TextsOf(sc[k].parts)[j])
                    /\ NumbersOf(v)[j] = Num(0)

\* no group of catalog gs holds two variants with one sku
SkusUnique(gs) ==
    \A g \in 1..Len(gs) : \A a, b \in 1..Len(gs[g].variants) :
        a # b => gs[g].variants[a].sku # gs[g].variants[b].sku

\* C4: no group ever holds two variants with one sku, and of the accepted
\* rows with one parent name and one sku the catalog holds the variant
\* built from the first.
SkuUniqueFirstWins ==
    /\ SkusUnique(groups)
    /\ SkusUnique(result)
    /\ Returned =>
          LET sc == Scan
              acc == Accepted(sc)
          IN  \A k \in acc :
                  VariantsOf(result, sc, k)
                      = {VariantAt(sc, FirstOfSku(sc, acc, k))}

\* C4 witness: a catalog returned for two accepted rows with one parent name
\* and one sku that would build different variants.
SkuUniqueFirstWinsWitness ==
    /\ Returned
    /\ LET sc == Scan
           acc == Accepted(sc)
       IN  \E k \in acc :
              /\ FirstOfSku(sc, acc, k) # k
              /\ VariantAt(sc, FirstOfSku(sc, acc, k)) # VariantAt(sc, k)
              /\ VariantAt(sc, k) \notin VariantsIn(result, ParentAt(sc, k))

\* C5 as claimed: the groups are in strictly increasing order of parentName.
GroupsStrictlyIncreasing ==
    Returned =>
        \A g \in 1..(Len(result) - 1) :
            localeCompare(result[g].parentName, result[g + 1].parentName) < 0

\* C5 amended: the catalog holds exactly one group for each parent name of
\* an accepted row, no two groups share a parentName, and no group's
\* parentName compares greater than the next one's under localeCompare.
OneGroupPerParentSorted ==
    Returned =>
        LET sc == Scan
        IN  /\ {result[g].parentName : g \in 1..Len(result)}
                  = {ParentAt(sc, k) : k \in Accepted(sc)}
            /\ \A a, b \in 1..Len(result) :
                  a # b => result[a].parentName # result[b].parentName
            /\ \A g \in 1..(Len(result) - 1) :
                  localeCompare(result[g].parentName,
                                result[g + 1].parentName) <= 0

\* C5 witness: a returned catalog whose groups are not in the order in which
\* their parent names first appear.
OneGroupPerParentSortedWitness ==
    /\ Returned
    /\ Len(result) >= 2
    /\ result # groups

OneLineDocument(doc) ==
    \A k \in 1..Len(doc) :
        doc[k] = "\n" =>
            \/ \A m \in 1..k : doc[m] \in WhiteSpace
            \/ \A m \in k..Len(doc) : doc[m] \in WhiteSpace

\* C8: for a document of fewer than 2 lines, the empty string and a lone
\* header line included, the returned catalog is empty.
FewerThanTwoLinesIsEmpty ==
    (pc = "returned" /\ OneLineDocument(csv)) => result = <<>>

\* C8 witness: an empty catalog returned for a document whose only line,
\* between blank lines, is a row of 11 or more fields.
FewerThanTwoLinesIsEmptyWitness ==
    /\ pc = "returned"
    /\ OneLineDocument(csv)
    /\ \E k \in 1..Len(csv) : csv[k] = "\n"
    /\ Len(lines) = 1
    /\ Len(parseLine(lines[1])) >= MinParts
    /\ result = <<>>

\* every group of catalog gs has the family of the first row of acc with
\* its parent name
FamiliesFromFirst(gs, sc, acc) ==
    \A g \in 1..Len(gs) :
        gs[g].family
            = FamilyOf(sc[FirstOfParent(sc, acc, gs[g].parentName)].parts)

\* C9: a group's family is that of the first accepted row with its parent
\* name, at every point of the loop and in the returned catalog.
FamilyFromFirstRow ==
    groups # <<>> =>
        LET sc == Scan
            acc == Accepted(sc)
        IN  FamiliesFromFirst(groups, sc, acc)
            /\ FamiliesFromFirst(result, sc, acc)

\* C9 witness: a catalog returned for two accepted rows with one parent name
\* and different families.
FamilyFromFirstRowWitness ==
    /\ Returned
    /\ LET sc == Scan
           acc == Accepted(sc)
       IN  \E k \in acc :
              /\ FamilyOf(sc[k].parts)
                    # FamilyOf(sc[FirstOfParent(sc, acc, ParentAt(sc, k))].parts)
              /\ \E g \in 1..Len(result) :
                    result[g].parentName = ParentAt(sc, k)

\* the loop is at a line that is a row of fewer than MinParts fields
AtShortRow ==
    /\ InLoop
    /\ ~IsSentinelLine(CurLine)
    /\ ~IsSkippedLine(CurLine)
    /\ Len(CurParts) < MinParts

\* the accepted rows behind a short row are in the returned catalog
RowsBehindShortRowKept ==
    Returned =>
        LET sc == Scan
            acc == Accepted(sc)
        IN  \A k \in Retained(sc, acc) :
                (\E m \in 2..(k - 1) : IsShortLine(sc, m)) =>
                    VariantAt(sc, k) \in VariantsIn(result, ParentAt(sc, k))

\* C10: the step on a short row changes no group, creates none and goes on
\* to the next line; and the accepted rows behind a short row are in the
\* returned catalog.
ShortRowIsOnlySkipped ==
    /\ [][AtShortRow => (groups' = groups /\ pc' = "loop" /\ i' = i + 1)]_vars
    /\ []RowsBehindShortRowKept

\* C10 witness: a catalog returned with the variant of a row that follows a
\* short row.
ShortRowIsOnlySkippedWitness ==
    /\ Returned
    /\ LET sc == Scan
           acc == Accepted(sc)
       IN  \E k \in Retained(sc, acc) :
              /\ \E m \in 2..(k - 1) : IsShortLine(sc, m)
              /\ VariantAt(sc, k) \in VariantsIn(result, ParentAt(sc, k))

\* row k has the price cells but no cell at index 13
HasNoWeightCell(sc, k) == Len(sc[k].parts) < 14

\* variant v has the sku of row k, the weight 0 and the prices of the cells
\* at indices 6, 8, 9 and 10 of row k
IsWeightlessVariantOf(v, sc, k) ==
    /\ v.sku = SkuAt(sc, k)
    /\ v.weight = Num(0)
    /\ v.stdPrice = cleanPrice(sc[k].parts[7])
    /\ v.floorPrice = cleanPrice(sc[k].parts[9])
    /\ v.givePrice = cleanPrice(sc[k].parts[10])
    /\ v.gsaPrice = cleanPrice(sc[k].parts[11])

\* C11: a row of at least 11 and fewer than 14 fields that the loop reaches
\* is not discarded: the returned catalog holds a variant with its parent
\* name and sku; and when it is the first row with that parent name and sku,
\* that variant has the weight 0 and the prices of the row's cells at
\* indices 6, 8, 9 and 10.
RowWithoutWeightCellWeighsZero ==
    Returned =>
        LET sc == Scan
            acc == Accepted(sc)
        IN  \A k \in acc :
                HasNoWeightCell(sc, k) =>
                    /\ VariantsOf(result, sc, k) # {}
                    /\ k \in Retained(sc, acc) =>
                          \A v \in VariantsOf(result, sc, k) :
                              IsWeightlessVariantOf(v, sc, k)

\* C11 witness: a catalog returned with the variant of a row of 13 fields
\* whose last cell is a number and whose prices are not 0.
RowWithoutWeightCellWeighsZeroWitness ==
    /\ Returned
    /\ LET sc == Scan
           acc == Accepted(sc)
       IN  \E k \in Retained(sc, acc) :
              /\ Len(sc[k].parts) = 13
              /\ ~parseFloat(sc[k].parts[13]).nan
              /\ \E v \in VariantsOf(result, sc, k) :
                    /\ IsWeightlessVariantOf(v, sc, k)
                    /\ v.stdPrice # Num(0)
                    /\ v.gsaPrice # Num(0)

\* in catalog gs the variant of row k1 stands before the variant of row k2,
\* both in the group of their parent name
StandsBefore(gs, sc, k1, k2) ==
    \E g \in 1..Len(gs) :
        /\ gs[g].parentName = ParentAt(sc, k1)
        /\ \E a, b \in 1..Len(gs[g].variants) :
              /\ a < b
              /\ gs[g].variants[a] = VariantAt(sc, k1)
              /\ gs[g].variants[b] = VariantAt(sc, k2)

\* the variants of every group of catalog gs stand in the order of their rows
InRowOrder(gs, sc, kept) ==
    \A k1, k2 \in kept :
        (k1 < k2 /\ ParentAt(sc, k1) = ParentAt(sc, k2))
            => StandsBefore(gs, sc, k1, k2)

\* every group of catalog gs is a group of hs, with the same variants in the
\* same order
SameGroups(gs, hs) ==
    /\ Len(gs) = Len(hs)
    /\ \A g \in 1..Len(gs) : \E h \in 1..Len(hs) : gs[g] = hs[h]

\* C12: in the returned catalog the variants of each group stand in the
\* order of the rows they come from: of two retained rows i < j with one
\* parent name the variant of row i stands before the variant of row j; and
\* the final sort returns the groups the loop built, their variants in the
\* order the loop left them.
VariantsKeepRowOrder ==
    Returned =>
        LET sc == Scan
            kept == Retained(sc, Accepted(sc))
        IN  /\ InRowOrder(groups, sc, kept)
            /\ InRowOrder(result, sc, kept)
            /\ SameGroups(result, groups)

\* C12 witness: a catalog returned with two variants of one group whose rows
\* stand in the document against the order of their skus.
VariantsKeepRowOrderWitness ==
    /\ Returned
    /\ LET sc == Scan
           kept == Retained(sc, Accepted(sc))
       IN  \E k1, k2 \in kept :
              /\ k1 < k2
              /\ ParentAt(sc, k1) = ParentAt(sc, k2)
              /\ DigitsVal(SkuAt(sc, k1)) > DigitsVal(SkuAt(sc, k2))
              /\ StandsBefore(result, sc, k1, k2)

\* every group of catalog gs holds a variant and has the family of its first
\* variant
GroupsStartWithOwnFamily(gs) ==
    \A g \in 1..Len(gs) :
        /\ Len(gs[g].variants) >= 1
        /\ gs[g].family = gs[g].variants[1].family

\* C13: after every line the loop has processed, each group that exists
\* holds at least one variant and has the family of its first variant; so
\* does each group of the returned catalog, none of which is empty.
GroupsNeverEmpty ==
    /\ GroupsStartWithOwnFamily(groups)
    /\ GroupsStartWithOwnFamily(result)

\* C13 witness: a catalog returned with a group whose second variant has
\* another family than the group and its first variant.
GroupsNeverEmptyWitness ==
    /\ Returned
    /\ \E g \in 1..Len(result) :
          /\ Len(result[g].variants) >= 2
          /\ result[g].variants[1].family = result[g].family
          /\ result[g].variants[2].family # result[g].family

====
